---- MODULE Spec2Model ----
(***************************************************************************)
(* Model of the Exabeam MCP server (src/exabeam-mcp-server.js): start-up   *)
(* validation of the configuration, the "list tools" handler, and the      *)
(* "call tool" handler with its authentication request, its dispatch to    *)
(* one of five handlers and the data-endpoint request each handler issues. *)
(* The upstream HTTP service and the protocol client are the environment:  *)
(* their requests and responses are drawn from small sets.                 *)
(***************************************************************************)
EXTENDS Integers, Sequences, FiniteSets, TLC

VARIABLES
  env,          \* process.env: EXABEAM_URL, EXABEAM_API_KEY, EXABEAM_API_SECRET
  phase,        \* "start" | "constructed" | "serving" | "crashed"
  startupError, \* message of the Error thrown by the constructor ("" if none)
  handlers,     \* set of request schemas that have a registered handler
  listed,       \* result of the last "list tools" request
  now,          \* wall clock, in whole hours since the epoch (UTC)
  pc,           \* per call: "idle" | "auth" | "data" | "done"
  req,          \* per call: request.params (name, arguments)
  authResp,     \* per call: upstream outcome of its authentication request
  dataReq,      \* per call: the data-endpoint request it issued
  dataResp,     \* per call: upstream outcome of its data request
  result,       \* per call: the Tool Call Result returned by the handler
  trace         \* per call: the HTTP requests it issued, in order

vars == <<env, phase, startupError, handlers, listed, now, pc, req,
          authResp, dataReq, dataResp, result, trace>>

----------------------------------------------------------------------------
(* Bounds of the model *)

MaxCalls == 2      \* tool calls that may overlap
MaxTicks == 2      \* hours the clock may advance

Calls == 1..MaxCalls
StartHour == 200   \* 1970-01-09T08:00Z, the clock at process start

----------------------------------------------------------------------------
(* JavaScript values: undefined, null, strings, numbers, arrays of strings *)
(* and flat objects with string members (o: sequence of <<key, string>>).  *)

JS(t, s, n, a, o) == [t |-> t, s |-> s, n |-> n, a |-> a, o |-> o]
Undefined == JS("undefined", "", 0, <<>>, <<>>)
Null == JS("null", "", 0, <<>>, <<>>)
Str(s) == JS("string", s, 0, <<>>, <<>>)
Num(n) == JS("number", "", n, <<>>, <<>>)
Arr(a) == JS("array", "", 0, a, <<>>)
Obj(o) == JS("object", "", 0, <<>>, o)

\* ToBoolean: undefined, null, "" and 0 are falsy
Truthy(v) ==
  CASE v.t = "undefined" -> FALSE
    [] v.t = "null" -> FALSE
    [] v.t = "string" -> v.s /= ""
    [] v.t = "number" -> v.n /= 0
    [] OTHER -> TRUE

\* a || b
Or(a, b) == IF Truthy(a) THEN a ELSE b

\* ToString, as a template literal `${v}` applies it
ToJSString(v) ==
  CASE v.t = "undefined" -> "undefined"
    [] v.t = "null" -> "null"
    [] v.t = "string" -> v.s
    [] v.t = "number" -> ToString(v.n)
    [] v.t = "array" -> "[array]"
    [] OTHER -> "[object Object]"

\* v.k and v?.k of a value that is not null or undefined
Member(v, k) ==
  IF v.t = "object" /\ \E i \in 1..Len(v.o) : v.o[i][1] = k
  THEN Str(v.o[CHOOSE i \in 1..Len(v.o) : v.o[i][1] = k][2])
  ELSE Undefined

\* v?.k
OptMember(v, k) == IF v.t \in {"undefined", "null"} THEN Undefined ELSE Member(v, k)

Quote(s) == "\"" \o s \o "\""

RECURSIVE Join(_, _)
Join(strs, sep) ==
  IF strs = <<>> THEN ""
  ELSE IF Len(strs) = 1 THEN strs[1]
  ELSE strs[1] \o sep \o Join(Tail(strs), sep)

Spaces(k) == Join([i \in 1..k |-> " "], "")

\* JSON.stringify(v, null, 2) of a value nested `depth` levels deep
StringifyAt(v, depth) ==
  LET ind == Spaces(2 * (depth + 1))
      close == "\n" \o Spaces(2 * depth)
  IN CASE v.t = "string" -> Quote(v.s)
       [] v.t = "number" -> ToString(v.n)
       [] v.t = "null" -> "null"
       [] v.t = "array" ->
            IF v.a = <<>> THEN "[]"
            ELSE "[\n" \o Join([i \in 1..Len(v.a) |-> ind \o Quote(v.a[i])], ",\n")
                 \o close \o "]"
       [] v.t = "object" ->
            IF v.o = <<>> THEN "{}"
            ELSE "{\n" \o Join([i \in 1..Len(v.o) |->
                                  ind \o Quote(v.o[i][1]) \o ": " \o Quote(v.o[i][2])], ",\n")
                 \o close \o "}"
       [] OTHER -> "undefined"

JSONstringify(v) == StringifyAt(v, 0)

\* A request object: a sequence of [k, v] properties in insertion order.
\* JSON.stringify(props, null, 2): members whose value is undefined are left out.
StringifyProps(props) ==
  LET kept == SelectSeq(props, LAMBDA p : p.v.t /= "undefined")
  IN IF kept = <<>> THEN "{}"
     ELSE "{\n" \o Join([i \in 1..Len(kept) |->
                           "  " \o Quote(kept[i].k) \o ": " \o StringifyAt(kept[i].v, 1)], ",\n")
          \o "\n}"

HasProp(props, k) == \E i \in 1..Len(props) : props[i].k = k
GetProp(props, k) == props[CHOOSE i \in 1..Len(props) : props[i].k = k].v
P(k, v) == [k |-> k, v |-> v]

\* Does text contain sub?
Contains(text, sub) ==
  \E i \in 1..(Len(text) - Len(sub) + 1) : SubSeq(text, i, i + Len(sub) - 1) = sub

StartsWith(text, pre) == Len(text) >= Len(pre) /\ SubSeq(text, 1, Len(pre)) = pre

\* Date.prototype.toISOString of an instant given in hours since the epoch
Pad2(n) == IF n < 10 THEN "0" \o ToString(n) ELSE ToString(n)
ToISOString(h) ==
  "1970-01-" \o Pad2((h \div 24) + 1) \o "T" \o Pad2(h % 24) \o ":00:00.000Z"

----------------------------------------------------------------------------
(* Configuration and construction *)

\* Values an environment variable may have: unset, set to "", set to a value
EnvValues == {Undefined, Str(""), Str("set")}

Environments == [url : EnvValues, key : EnvValues, secret : EnvValues]

\* this.exabeamConfig
ExabeamConfig(e) == [baseUrl |-> e.url, apiKey |-> e.key, apiSecret |-> e.secret]

UrlRequired == "EXABEAM_URL environment variable is required"
KeySecretRequired ==
  "Both EXABEAM_API_KEY and EXABEAM_API_SECRET environment variables are required"

\* Variant: the key and the secret are rejected only when both are missing
ValidateConfigEither(cfg) ==
  IF ~Truthy(cfg.baseUrl) THEN UrlRequired
  ELSE IF ~Truthy(cfg.apiKey) /\ ~Truthy(cfg.apiSecret) THEN KeySecretRequired
  ELSE ""

\* The Error the constructor throws for a configuration, "" when it throws none
ValidateConfig(cfg) ==
  IF ~Truthy(cfg.baseUrl) THEN UrlRequired
  ELSE IF ~Truthy(cfg.apiKey) \/ ~Truthy(cfg.apiSecret) THEN KeySecretRequired
  ELSE ""

\* setupHandlers registers one handler per request schema
SetupHandlers == {"ListTools", "CallTool"}

----------------------------------------------------------------------------
(* The tool registry returned by the "list tools" handler *)

ToolDef(name, properties, required) ==
  [name |-> name, properties |-> properties, required |-> required]

\* Variant: the registry drifts from the handlers (a renamed tool, a default
\* declared as required)
ToolListDrifted ==
  << ToolDef("search_events", {"query", "startTime", "endTime", "limit"}, {"query"}),
     ToolDef("get_user_timeline", {"username", "days"}, {"username"}),
     ToolDef("get_notable_events", {"severity", "hours"}, {"severity"}),
     ToolDef("get_user_risk_score", {"username"}, {"username"}),
     ToolDef("search_asset", {"query", "assetType"}, {"query"}) >>

ToolList ==
  << ToolDef("search_events", {"query", "startTime", "endTime", "limit"}, {"query"}),
     ToolDef("get_user_timeline", {"username", "days"}, {"username"}),
     ToolDef("get_notable_events", {"severity", "hours"}, {}),
     ToolDef("get_user_risk_score", {"username"}, {"username"}),
     ToolDef("search_assets", {"query", "assetType"}, {"query"}) >>

\* Variant: the default case falls through to the last handler
RouteFallsThrough(name) ==
  CASE name = "search_events" -> "searchEvents"
    [] name = "get_user_timeline" -> "getUserTimeline"
    [] name = "get_notable_events" -> "getNotableEvents"
    [] name = "get_user_risk_score" -> "getUserRiskScore"
    [] OTHER -> "searchAssets"

\* The switch of the call handler: the handler a name is routed to
Route(name) ==
  CASE name = "search_events" -> "searchEvents"
    [] name = "get_user_timeline" -> "getUserTimeline"
    [] name = "get_notable_events" -> "getNotableEvents"
    [] name = "get_user_risk_score" -> "getUserRiskScore"
    [] name = "search_assets" -> "searchAssets"
    [] OTHER -> "default"

----------------------------------------------------------------------------
(* Errors and upstream outcomes *)

\* An outcome of an HTTP request as axios reports it.  ok: resolved with a
\* response; otherwise rejected with an error that carries a message and,
\* when the upstream answered, the response.
Outcome(ok, hasResponse, status, statusText, data, message) ==
  [ok |-> ok, hasResponse |-> hasResponse, status |-> status,
   statusText |-> statusText, data |-> data, message |-> message]

NoOutcome == Outcome(FALSE, FALSE, 0, "", Undefined, "")

\* A thrown Error that is not an axios error: only a message
PlainError(message) == Outcome(FALSE, FALSE, 0, "", Undefined, message)

\* error.response?.status, error.response?.statusText, error.response?.data
ErrStatus(e) == IF e.hasResponse THEN Num(e.status) ELSE Undefined
ErrStatusText(e) == IF e.hasResponse THEN Str(e.statusText) ELSE Undefined
ErrData(e) == IF e.hasResponse THEN e.data ELSE Undefined

\* A Tool Call Result: content is a sequence of blocks
TextResult(text) == [content |-> << [type |-> "text", text |-> text] >>]
NoResult == [content |-> <<>>]

\* authenticate(): given the outcome of the token request, the value returned
\* or the Error thrown.  Reading access_token of a null body throws inside the
\* try block and is wrapped like a failed request.
AuthFailedMessage(e) ==
  "Authentication failed: "
    \o ToJSString(Or(OptMember(ErrData(e), "error_description"), Str(e.message)))

\* Variant: a failed token request is logged and swallowed, and no token is returned
AuthenticateSwallows(out) ==
  [throws |-> FALSE, message |-> "",
   token |-> IF out.ok THEN OptMember(out.data, "access_token") ELSE Undefined]

Authenticate(out) ==
  IF out.ok
  THEN IF out.data.t \in {"null", "undefined"}
       THEN [throws |-> TRUE, token |-> Undefined,
             message |-> AuthFailedMessage(PlainError(
               "Cannot read properties of " \o out.data.t \o " (reading 'access_token')"))]
       ELSE [throws |-> FALSE, token |-> Member(out.data, "access_token"), message |-> ""]
  ELSE [throws |-> TRUE, token |-> Undefined, message |-> AuthFailedMessage(out)]

\* Variant: the headers are kept in a field shared by all invocations, so a
\* call may send the token another call obtained
HeadersShared(c, token) ==
  LET others == {d \in Calls : d /= c /\ pc[d] \in {"data", "done"} /\ authResp[d].ok}
      d == CHOOSE d \in others : TRUE
  IN [Authorization |-> IF others = {} THEN "Bearer " \o ToJSString(token)
                        ELSE "Bearer " \o ToJSString(Member(authResp[d].data, "access_token")),
      ContentType |-> "application/json"]

\* The headers object built by the call handler of invocation c
Headers(c, token) ==
  [Authorization |-> "Bearer " \o ToJSString(token), ContentType |-> "application/json"]

----------------------------------------------------------------------------
(* The five handlers.  Each runs synchronously up to its HTTP request: it  *)
(* either throws or issues one request.  args is request.params.arguments: *)
(* defined = FALSE when the client sent none.                               *)

Args(props) == [defined |-> TRUE, props |-> props]
EmptyObject == [k \in {} |-> Undefined]
NoArgs == [defined |-> FALSE, props |-> EmptyObject]

\* args.k
Arg(args, k) == IF k \in DOMAIN args.props THEN args.props[k] ELSE Undefined

\* A destructuring default: `k = d` applies when the property is undefined
Default(v, d) == IF v.t = "undefined" THEN d ELSE v

\* The TypeError of destructuring undefined, named after the first property
DestructureError(first) ==
  "Cannot destructure property '" \o first \o "' of 'args' as it is undefined."

ApiBaseUrl == "https://api.eu.exabeam.cloud"
AuthUrl == "https://api.us-west.exabeam.cloud/auth/v1/token"

NoRequest == [method |-> "", url |-> "", params |-> <<>>, body |-> <<>>,
              headers |-> [Authorization |-> "", ContentType |-> ""], at |-> 0]

Throw(message) == [throws |-> TRUE, message |-> message, request |-> NoRequest]
Issue(method, url, params, body, headers, t) ==
  [throws |-> FALSE, message |-> "",
   request |-> [method |-> method, url |-> url, params |-> params, body |-> body,
                headers |-> headers, at |-> t]]

SearchParams(args, t) ==
  << P("filter", Or(Arg(args, "query"), Str(""))),
     P("fields", Arr(<<"time", "user", "action", "result", "src_ip", "dest_ip">>)),
     P("startTime", Or(Arg(args, "startTime"), Str(ToISOString(t - 24)))),
     P("endTime", Or(Arg(args, "endTime"), Str(ToISOString(t)))),
     P("limit", Default(Arg(args, "limit"), Num(100))) >>

searchEvents(args, headers, t) ==
  IF ~args.defined THEN Throw(DestructureError("query"))
  ELSE Issue("POST", ApiBaseUrl \o "/search/v2/events", <<>>, SearchParams(args, t),
             [Authorization |-> headers.Authorization, ContentType |-> "application/json",
              Accept |-> "application/json"], t)

getUserTimeline(args, headers, t) ==
  IF ~args.defined THEN Throw(DestructureError("username"))
  ELSE LET username == Arg(args, "username")
           days == Default(Arg(args, "days"), Num(7))
       IN Issue("GET", ApiBaseUrl \o "/users/v1/" \o ToJSString(username) \o "/timeline",
                << P("startTime", Str(ToISOString(t - 24 * days.n))),
                   P("endTime", Str(ToISOString(t))) >>,
                <<>>, headers, t)

severityMap(severity) ==
  CASE severity = Str("low") -> Num(1)
    [] severity = Str("medium") -> Num(2)
    [] severity = Str("high") -> Num(3)
    [] severity = Str("critical") -> Num(4)
    [] OTHER -> Undefined

getNotableEvents(args, headers, t) ==
  IF ~args.defined THEN Throw(DestructureError("severity"))
  ELSE LET severity == Default(Arg(args, "severity"), Str("medium"))
           hours == Default(Arg(args, "hours"), Num(24))
       IN Issue("GET", ApiBaseUrl \o "/notable-events/v1/events",
                << P("minSeverity", severityMap(severity)),
                   P("startTime", Str(ToISOString(t - hours.n))),
                   P("endTime", Str(ToISOString(t))) >>,
                <<>>, headers, t)

getUserRiskScore(args, headers, t) ==
  IF ~args.defined THEN Throw(DestructureError("username"))
  ELSE Issue("GET", ApiBaseUrl \o "/users/v1/" \o ToJSString(Arg(args, "username"))
                    \o "/risk-score",
             <<>>, <<>>, headers, t)

\* Variant: the caller's limit is honoured
AssetSearchParamsCallerLimit(args) ==
  LET assetType == Default(Arg(args, "assetType"), Str("all"))
  IN << P("query", Arg(args, "query")), P("limit", Default(Arg(args, "limit"), Num(50))) >>
     \o (IF assetType /= Str("all") THEN << P("assetType", assetType) >> ELSE <<>>)

AssetSearchParams(args) ==
  LET assetType == Default(Arg(args, "assetType"), Str("all"))
  IN << P("query", Arg(args, "query")), P("limit", Num(50)) >>
     \o (IF assetType /= Str("all") THEN << P("assetType", assetType) >> ELSE <<>>)

searchAssets(args, headers, t) ==
  IF ~args.defined THEN Throw(DestructureError("query"))
  ELSE Issue("POST", ApiBaseUrl \o "/assets/v1/search", <<>>, AssetSearchParams(args),
             headers, t)

\* The switch statement: the synchronous part of the routed handler
Dispatch(name, args, headers, t) ==
  LET h == Route(name)
  IN CASE h = "searchEvents" -> searchEvents(args, headers, t)
       [] h = "getUserTimeline" -> getUserTimeline(args, headers, t)
       [] h = "getNotableEvents" -> getNotableEvents(args, headers, t)
       [] h = "getUserRiskScore" -> getUserRiskScore(args, headers, t)
       [] h = "searchAssets" -> searchAssets(args, headers, t)
       [] OTHER -> Throw("Unknown tool: " \o name)

\* Variant: the call handler has no catch block and the error escapes it
CatchAllMissing(message) == NoResult

\* The catch block of the call handler
CatchAll(message) == TextResult("Error: " \o message)

\* A handler's return value for a successful response
SuccessResult(out) == TextResult(JSONstringify(out.data))

\* The catch block of searchEvents
SearchErrorText(e, searchParams) ==
  "Error: " \o ToJSString(ErrStatus(e)) \o " - " \o ToJSString(ErrStatusText(e))
    \o "\n\nDetails: " \o JSONstringify(Or(ErrData(e), Str(e.message)))
    \o "\n\nRequest sent: " \o StringifyProps(searchParams)

\* Variant: searchEvents has no catch block of its own
SettleUniform(name, request, out) ==
  IF out.ok THEN SuccessResult(out) ELSE CatchAll(out.message)

\* What the call handler returns once the data request of `name` has settled
Settle(name, request, out) ==
  IF out.ok THEN SuccessResult(out)
  ELSE IF Route(name) = "searchEvents"
       THEN TextResult(SearchErrorText(out, request.body))
       ELSE CatchAll(out.message)

----------------------------------------------------------------------------
(* The environment: what the client asks and what the upstream answers *)

Req(name, args) == [name |-> name, args |-> args]
NoReq == Req("", NoArgs)

Requests ==
  { Req("search_events", NoArgs),
    Req("search_events", Args([query |-> Str("user:john")])),
    Req("search_events", Args([query |-> Str(""), startTime |-> Str("2024-01-01T00:00:00Z"),
                               endTime |-> Str("2024-01-02T00:00:00Z"), limit |-> Num(5)])),
    Req("get_user_timeline", NoArgs),
    Req("get_user_timeline", Args([username |-> Str("john.doe")])),
    Req("get_user_timeline", Args([username |-> Str("john.doe"), days |-> Num(1)])),
    Req("get_notable_events", NoArgs),
    Req("get_notable_events", Args(EmptyObject)),
    Req("get_notable_events", Args([severity |-> Str("critical"), hours |-> Num(1)])),
    Req("get_user_risk_score", NoArgs),
    Req("get_user_risk_score", Args([username |-> Str("john.doe")])),
    Req("search_assets", NoArgs),
    Req("search_assets", Args([query |-> Str("web")])),
    Req("search_assets", Args([query |-> Str("web"), assetType |-> Str("all"),
                               limit |-> Num(10)])),
    Req("search_assets", Args([query |-> Str("web"), assetType |-> Str("server"),
                               limit |-> Num(10)])),
    Req("delete_everything", NoArgs),
    Req("delete_everything", Args(EmptyObject)) }

\* The requests of overlapping calls
OverlapRequests ==
  { Req("search_events", Args([query |-> Str("user:john")])),
    Req("get_user_risk_score", Args([username |-> Str("john.doe")])),
    Req("delete_everything", Args(EmptyObject)) }

Status401 == "Request failed with status code 401"
Status500 == "Request failed with status code 500"
Refused == "connect ECONNREFUSED"

OkOutcome(data) == Outcome(TRUE, TRUE, 200, "OK", data, "")

AuthOutcomes ==
  { OkOutcome(Obj(<< <<"access_token", "tokA">> >>)),
    OkOutcome(Obj(<< <<"access_token", "tokB">> >>)),
    OkOutcome(Obj(<<>>)),
    OkOutcome(Null),
    Outcome(FALSE, TRUE, 401, "Unauthorized",
            Obj(<< <<"error", "invalid_client">>,
                   <<"error_description", "Bad client credentials">> >>), Status401),
    Outcome(FALSE, FALSE, 0, "", Undefined, Refused) }

OverlapAuthOutcomes ==
  { OkOutcome(Obj(<< <<"access_token", "tokA">> >>)),
    OkOutcome(Obj(<< <<"access_token", "tokB">> >>)),
    Outcome(FALSE, TRUE, 401, "Unauthorized",
            Obj(<< <<"error_description", "Bad client credentials">> >>), Status401) }

DataOutcomes ==
  { OkOutcome(Obj(<< <<"status", "ok">> >>)),
    OkOutcome(Str("")),
    Outcome(FALSE, TRUE, 500, "Internal Server Error",
            Obj(<< <<"message", "boom">> >>), Status500),
    Outcome(FALSE, TRUE, 500, "Internal Server Error", Str(""), Status500),
    Outcome(FALSE, TRUE, 500, "Internal Server Error", Null, Status500),
    Outcome(FALSE, FALSE, 0, "", Undefined, Refused) }

OverlapDataOutcomes ==
  { OkOutcome(Obj(<< <<"status", "ok">> >>)),
    Outcome(FALSE, TRUE, 500, "Internal Server Error",
            Obj(<< <<"message", "boom">> >>), Status500) }

----------------------------------------------------------------------------
(* Initial state: the process has been started with some environment *)

Init ==
  /\ env \in Environments
  /\ phase = "start"
  /\ startupError = ""
  /\ handlers = {}
  /\ listed = <<>>
  /\ now = StartHour
  /\ pc = [c \in Calls |-> "idle"]
  /\ req = [c \in Calls |-> NoReq]
  /\ authResp = [c \in Calls |-> NoOutcome]
  /\ dataReq = [c \in Calls |-> NoRequest]
  /\ dataResp = [c \in Calls |-> NoOutcome]
  /\ result = [c \in Calls |-> NoResult]
  /\ trace = [c \in Calls |-> <<>>]

callVars == <<pc, req, authResp, dataReq, dataResp, result, trace>>

(* new ExabeamMCPServer(): validation passes and the handlers are registered *)
Construct ==
  /\ phase = "start"
  /\ ValidateConfig(ExabeamConfig(env)) = ""
  /\ phase' = "constructed"
  /\ handlers' = SetupHandlers
  /\ UNCHANGED <<env, startupError, listed, now, callVars>>

(* new ExabeamMCPServer(): validation throws; the uncaught Error ends the process *)
ConstructFails ==
  /\ phase = "start"
  /\ ValidateConfig(ExabeamConfig(env)) /= ""
  /\ phase' = "crashed"
  /\ startupError' = ValidateConfig(ExabeamConfig(env))
  /\ UNCHANGED <<env, handlers, listed, now, callVars>>

(* server.run(): the transport is connected *)
Run ==
  /\ phase = "constructed"
  /\ phase' = "serving"
  /\ UNCHANGED <<env, startupError, handlers, listed, now, callVars>>

(* The clock advances *)
Tick ==
  /\ phase \in {"start", "constructed", "serving"}
  /\ now < StartHour + MaxTicks
  /\ now' = now + 1
  /\ UNCHANGED <<env, phase, startupError, handlers, listed, callVars>>

(* A "list tools" request is served *)
ListTools ==
  /\ phase = "serving"
  /\ "ListTools" \in handlers
  /\ listed' = ToolList
  /\ UNCHANGED <<env, phase, startupError, handlers, now, callVars>>

(* A "call tool" request arrives: the handler runs up to the token request *)
CallTool(c, r) ==
  /\ phase = "serving"
  /\ "CallTool" \in handlers
  /\ pc[c] = "idle"
  /\ pc' = [pc EXCEPT ![c] = "auth"]
  /\ req' = [req EXCEPT ![c] = r]
  /\ trace' = [trace EXCEPT ![c] = <<AuthUrl>>]
  /\ UNCHANGED <<env, phase, startupError, handlers, listed, now,
                 authResp, dataReq, dataResp, result>>

(* Variant: a failed token request is retried *)
AuthFailsRetries(c, out) ==
  /\ pc[c] = "auth"
  /\ Authenticate(out).throws
  /\ authResp' = [authResp EXCEPT ![c] = out]
  /\ trace' = [trace EXCEPT ![c] = Append(@, AuthUrl)]
  /\ UNCHANGED <<env, phase, startupError, handlers, listed, now, pc, req,
                 dataReq, dataResp, result>>

(* The token request settles and authenticate() throws: the catch block returns *)
AuthFails(c, out) ==
  /\ pc[c] = "auth"
  /\ Authenticate(out).throws
  /\ authResp' = [authResp EXCEPT ![c] = out]
  /\ result' = [result EXCEPT ![c] = CatchAll(Authenticate(out).message)]
  /\ pc' = [pc EXCEPT ![c] = "done"]
  /\ UNCHANGED <<env, phase, startupError, handlers, listed, now, req,
                 dataReq, dataResp, trace>>

(* The token request settles, authenticate() returns, and the routed handler throws
   before any request (or no handler is routed): the catch block returns *)
HandlerThrows(c, out) ==
  /\ pc[c] = "auth"
  /\ ~Authenticate(out).throws
  /\ LET d == Dispatch(req[c].name, req[c].args, Headers(c, Authenticate(out).token), now)
     IN /\ d.throws
        /\ result' = [result EXCEPT ![c] = CatchAll(d.message)]
  /\ authResp' = [authResp EXCEPT ![c] = out]
  /\ pc' = [pc EXCEPT ![c] = "done"]
  /\ UNCHANGED <<env, phase, startupError, handlers, listed, now, req,
                 dataReq, dataResp, trace>>

(* The token request settles, authenticate() returns, and the routed handler
   issues its data request *)
HandlerRequests(c, out) ==
  /\ pc[c] = "auth"
  /\ ~Authenticate(out).throws
  /\ LET d == Dispatch(req[c].name, req[c].args, Headers(c, Authenticate(out).token), now)
     IN /\ ~d.throws
        /\ dataReq' = [dataReq EXCEPT ![c] = d.request]
        /\ trace' = [trace EXCEPT ![c] = Append(@, d.request.url)]
  /\ authResp' = [authResp EXCEPT ![c] = out]
  /\ pc' = [pc EXCEPT ![c] = "data"]
  /\ UNCHANGED <<env, phase, startupError, handlers, listed, now, req,
                 dataResp, result>>

(* The data request settles: the handler returns, or throws into the catch block *)
DataSettles(c, out) ==
  /\ pc[c] = "data"
  /\ dataResp' = [dataResp EXCEPT ![c] = out]
  /\ result' = [result EXCEPT ![c] = Settle(req[c].name, dataReq[c], out)]
  /\ pc' = [pc EXCEPT ![c] = "done"]
  /\ UNCHANGED <<env, phase, startupError, handlers, listed, now, req,
                 authResp, dataReq, trace>>

(* The result is sent to the client; nothing of the call is kept *)
Reply(c) ==
  /\ pc[c] = "done"
  /\ pc' = [pc EXCEPT ![c] = "idle"]
  /\ req' = [req EXCEPT ![c] = NoReq]
  /\ authResp' = [authResp EXCEPT ![c] = NoOutcome]
  /\ dataReq' = [dataReq EXCEPT ![c] = NoRequest]
  /\ dataResp' = [dataResp EXCEPT ![c] = NoOutcome]
  /\ result' = [result EXCEPT ![c] = NoResult]
  /\ trace' = [trace EXCEPT ![c] = <<>>]
  /\ UNCHANGED <<env, phase, startupError, handlers, listed, now>>

\* No call is in flight
Quiet == \A c \in Calls : pc[c] = "idle"

(* Calls served one at a time, with every request and every upstream outcome *)
Next ==
  \/ Construct
  \/ ConstructFails
  \/ Run
  \/ Tick
  \/ ListTools
  \/ \E c \in Calls, r \in Requests : Quiet /\ CallTool(c, r)
  \/ \E c \in Calls, out \in AuthOutcomes : AuthFails(c, out)
  \/ \E c \in Calls, out \in AuthOutcomes : HandlerThrows(c, out)
  \/ \E c \in Calls, out \in AuthOutcomes : HandlerRequests(c, out)
  \/ \E c \in Calls, out \in DataOutcomes : DataSettles(c, out)
  \/ \E c \in Calls : Reply(c)

Spec == Init /\ [][Next]_vars

(* Overlapping calls *)
OverlapNext ==
  \/ Construct
  \/ ConstructFails
  \/ Run
  \/ \E c \in Calls, r \in OverlapRequests : CallTool(c, r)
  \/ \E c \in Calls, out \in OverlapAuthOutcomes : AuthFails(c, out)
  \/ \E c \in Calls, out \in OverlapAuthOutcomes : HandlerThrows(c, out)
  \/ \E c \in Calls, out \in OverlapAuthOutcomes : HandlerRequests(c, out)
  \/ \E c \in Calls, out \in OverlapDataOutcomes : DataSettles(c, out)
  \/ \E c \in Calls : Reply(c)

OverlapSpec == Init /\ [][OverlapNext]_vars

----------------------------------------------------------------------------
(* Properties *)

RegisteredNames == {"search_events", "get_user_timeline", "get_notable_events",
                    "get_user_risk_score", "search_assets"}

Done(c) == pc[c] = "done"

\* The token request of call c did not yield a token: it was rejected, or its
\* body could not be read
AuthFailed(c) == ~authResp[c].ok \/ authResp[c].data.t \in {"null", "undefined"}
AuthSucceeded(c) == authResp[c].ok /\ authResp[c].data.t = "object"

\* The description an authentication error carries: the structured
\* error_description of the upstream body, else the error's own message
AuthDescription(out) ==
  IF ~out.ok /\ out.hasResponse /\ out.data.t = "object"
     /\ \E i \in 1..Len(out.data.o) : out.data.o[i][1] = "error_description" /\ out.data.o[i][2] /= ""
  THEN LET i == CHOOSE i \in 1..Len(out.data.o) : out.data.o[i][1] = "error_description"
       IN out.data.o[i][2]
  ELSE IF ~out.ok THEN out.message
  ELSE "Cannot read properties of " \o out.data.t \o " (reading 'access_token')"

Text(c) == result[c].content[1].text

\* C1: a call whose authentication failed, whatever its name and arguments,
\* returns the text "Error: Authentication failed: <description>" and has
\* issued no request but the token request.
C1_AuthFailureShortCircuits ==
  \A c \in Calls :
    (pc[c] \in {"data", "done"} /\ AuthFailed(c)) =>
      /\ Done(c)
      /\ result[c] = TextResult("Error: Authentication failed: "
                                  \o AuthDescription(authResp[c]))
      /\ trace[c] = <<AuthUrl>>
      /\ dataReq[c] = NoRequest
      /\ dataResp[c] = NoOutcome

C1_Witness ==
  \E c \in Calls :
    /\ Done(c) /\ AuthFailed(c) /\ authResp[c].status = 401
    /\ req[c].name = "get_user_timeline" /\ req[c].args.defined
    /\ Text(c) = "Error: Authentication failed: Bad client credentials"

\* C2: every result a call returns has exactly one content block, of type
\* "text", carrying a string, whatever the name, the arguments (absent ones
\* included) and the upstream outcomes; a call that has not returned has no result.
C2_OneTextBlock ==
  \A c \in Calls :
    /\ Done(c) => /\ Len(result[c].content) = 1
                  /\ DOMAIN result[c].content[1] = {"type", "text"}
                  /\ result[c].content[1].type = "text"
                  /\ result[c].content[1].text \in STRING
    /\ ~Done(c) => result[c] = NoResult

C2_Witness ==
  \E c \in Calls :
    /\ Done(c) /\ ~req[c].args.defined /\ req[c].name = "search_assets"
    /\ AuthSucceeded(c)
    /\ Text(c) = "Error: Cannot destructure property 'query' of 'args' as it is undefined."

\* C3: the HTTP requests of one call are the token request alone, or the
\* token request followed by one data-endpoint request: never a second token
\* request, never a second data request, never a data request first.
C3_OneAuthThenAtMostOneData ==
  \A c \in Calls :
    /\ pc[c] = "idle" => trace[c] = <<>>
    /\ pc[c] = "auth" => trace[c] = <<AuthUrl>>
    /\ pc[c] = "data" => Len(trace[c]) = 2
    /\ pc[c] = "done" => Len(trace[c]) \in {1, 2}
    /\ Len(trace[c]) >= 1 => trace[c][1] = AuthUrl
    /\ Len(trace[c]) = 2 => /\ trace[c][2] /= AuthUrl
                            /\ StartsWith(trace[c][2], ApiBaseUrl)
                            /\ trace[c][2] = dataReq[c].url
    /\ (Done(c) /\ (~authResp[c].ok \/ ~dataResp[c].ok)) => Len(trace[c]) <= 2

C3_Witness ==
  \E c \in Calls :
    /\ Done(c) /\ trace[c] = <<AuthUrl, ApiBaseUrl \o "/users/v1/john.doe/risk-score">>
    /\ ~dataResp[c].ok /\ dataResp[c].hasResponse

\* The access token the upstream returned to call c's own token request
OwnToken(c) ==
  LET o == authResp[c].data.o
  IN IF \E i \in 1..Len(o) : o[i][1] = "access_token"
     THEN o[CHOOSE i \in 1..Len(o) : o[i][1] = "access_token"][2]
     ELSE "undefined"

Local(c) == <<pc[c], req[c], authResp[c], dataReq[c], dataResp[c], result[c], trace[c]>>

\* A data request carries the token of the same call's token request, and two
\* finished calls with the same request and the same upstream outcomes have
\* the same result
C4_Isolated ==
  /\ \A c \in Calls :
       pc[c] \in {"data", "done"} /\ dataReq[c] /= NoRequest =>
         dataReq[c].headers.Authorization = "Bearer " \o OwnToken(c)
  /\ \A c, d \in Calls :
       (Done(c) /\ Done(d) /\ req[c] = req[d] /\ authResp[c] = authResp[d]
          /\ dataResp[c] = dataResp[d] /\ dataReq[c].at = dataReq[d].at)
         => result[c] = result[d]

\* A step of one call leaves every other call as it was, and no step of a
\* call, failed or not, takes the server out of service
C4_StepLocal ==
  /\ \A c, d \in Calls : (c /= d /\ Local(c)' /= Local(c)) => Local(d)' = Local(d)
  /\ phase = "serving" => phase' = "serving"
  /\ (phase = "serving" /\ \E c \in Calls : Local(c)' /= Local(c))
       => (handlers' = handlers /\ env' = env /\ startupError' = startupError)

\* C4: under any interleaving of overlapping calls, each call uses its own
\* token and its result depends only on its own request and on the upstream
\* outcomes of its own requests; no step of a call touches another call or
\* stops the server.
C4_CallsIndependent == []C4_Isolated /\ [][C4_StepLocal]_vars

C4_Witness ==
  \E c, d \in Calls :
    /\ c /= d
    /\ pc[c] = "data" /\ dataReq[c].headers.Authorization = "Bearer tokA"
    /\ Done(d) /\ dataReq[d].headers.Authorization = "Bearer tokB"
    /\ ~dataResp[d].ok
    /\ req[c] = req[d]

\* C5: with a successful authentication, a name that is none of the five
\* registered names yields the single text "Error: Unknown tool: <name>" and
\* no data-endpoint request.
C5_UnknownTool ==
  \A c \in Calls :
    (pc[c] \in {"data", "done"} /\ AuthSucceeded(c) /\ req[c].name \notin RegisteredNames) =>
      /\ Done(c)
      /\ result[c] = TextResult("Error: Unknown tool: " \o req[c].name)
      /\ trace[c] = <<AuthUrl>>
      /\ dataReq[c] = NoRequest

C5_Witness ==
  \E c \in Calls :
    /\ Done(c) /\ AuthSucceeded(c) /\ req[c].name = "delete_everything"
    /\ Text(c) = "Error: Unknown tool: delete_everything"

\* The data request of call c failed after a successful authentication
DataFailed(c) == Done(c) /\ AuthSucceeded(c) /\ dataReq[c] /= NoRequest /\ ~dataResp[c].ok

\* C6 as stated: when the data request fails, search_events returns a
\* diagnostic that contains the HTTP status, the status text, the upstream
\* error body and the request parameters sent, whenever the upstream answered;
\* the other four tools return "Error: <message>"; both begin with "Error:".
C6_Original ==
  \A c \in Calls :
    DataFailed(c) =>
      /\ StartsWith(Text(c), "Error:")
      /\ req[c].name = "search_events" =>
           /\ Contains(Text(c), StringifyProps(dataReq[c].body))
           /\ dataResp[c].hasResponse =>
                /\ Contains(Text(c), ToString(dataResp[c].status))
                /\ Contains(Text(c), dataResp[c].statusText)
                /\ Contains(Text(c), JSONstringify(dataResp[c].data))
      /\ req[c].name /= "search_events" => Text(c) = "Error: " \o dataResp[c].message

\* C6: when the data request fails, search_events returns a diagnostic that
\* begins with "Error:" and contains the request parameters sent, the HTTP
\* status and status text when the upstream answered (the word undefined
\* otherwise), and the upstream error body when it is not empty (the error's
\* own message otherwise); the other four tools return "Error: <message>".
C6_ErrorFormats ==
  \A c \in Calls :
    DataFailed(c) =>
      /\ StartsWith(Text(c), "Error:")
      /\ req[c].name = "search_events" =>
           /\ Contains(Text(c), "Request sent: " \o StringifyProps(dataReq[c].body))
           /\ IF dataResp[c].hasResponse
              THEN /\ StartsWith(Text(c), "Error: " \o ToString(dataResp[c].status)
                                            \o " - " \o dataResp[c].statusText \o "\n")
                   /\ Contains(Text(c), "Details: " \o
                        (IF Truthy(dataResp[c].data)
                         THEN JSONstringify(dataResp[c].data)
                         ELSE Quote(dataResp[c].message)))
              ELSE /\ StartsWith(Text(c), "Error: undefined - undefined\n")
                   /\ Contains(Text(c), "Details: " \o Quote(dataResp[c].message))
      /\ req[c].name /= "search_events" => Text(c) = "Error: " \o dataResp[c].message

C6_Witness ==
  \E c \in Calls :
    /\ DataFailed(c) /\ req[c].name = "search_events"
    /\ dataResp[c].status = 500 /\ dataResp[c].data = Obj(<< <<"message", "boom">> >>)
    /\ Contains(Text(c), "\"filter\": \"user:john\"")
    /\ Contains(Text(c), "\"message\": \"boom\"")

AllPresent == Truthy(env.url) /\ Truthy(env.key) /\ Truthy(env.secret)
Servable == handlers /= {} \/ phase \in {"constructed", "serving"}
NeverServed ==
  /\ handlers = {} /\ listed = <<>>
  /\ \A c \in Calls : Local(c) = <<"idle", NoReq, NoOutcome, NoRequest, NoOutcome, NoResult, <<>> >>

\* C7 as stated: a missing key or secret always fails construction with the
\* error naming both EXABEAM_API_KEY and EXABEAM_API_SECRET.
C7_Original ==
  /\ Servable => AllPresent
  /\ phase = "crashed" => NeverServed
  /\ (phase /= "start" /\ ~Truthy(env.url)) =>
       phase = "crashed" /\ Contains(startupError, "EXABEAM_URL")
  /\ (phase /= "start" /\ (~Truthy(env.key) \/ ~Truthy(env.secret))) =>
       /\ phase = "crashed"
       /\ Contains(startupError, "EXABEAM_API_KEY")
       /\ Contains(startupError, "EXABEAM_API_SECRET")

\* C7: the server is servable only if all three configuration values are
\* present; a missing endpoint fails construction with the error naming
\* EXABEAM_URL; a missing key or secret, the endpoint being present, fails it
\* with the error naming both EXABEAM_API_KEY and EXABEAM_API_SECRET; after
\* either failure nothing is registered and no call is served.
C7_ServableOnlyIfConfigured ==
  /\ Servable => AllPresent
  /\ phase = "crashed" => NeverServed
  /\ (phase /= "start" /\ ~Truthy(env.url)) =>
       phase = "crashed" /\ Contains(startupError, "EXABEAM_URL")
  /\ (phase /= "start" /\ Truthy(env.url) /\ (~Truthy(env.key) \/ ~Truthy(env.secret))) =>
       /\ phase = "crashed"
       /\ Contains(startupError, "EXABEAM_API_KEY")
       /\ Contains(startupError, "EXABEAM_API_SECRET")

C7_Witness ==
  /\ phase = "crashed"
  /\ Truthy(env.url) /\ Truthy(env.key) /\ env.secret = Undefined
  /\ startupError = KeySecretRequired

\* Names a client might send: the registered ones and near misses
NameUniverse ==
  RegisteredNames \cup {r.name : r \in Requests}
    \cup {"", "search_event", "SEARCH_EVENTS", "searchEvents", "default"}

ListedNames == {listed[i].name : i \in 1..Len(listed)}

\* C8: a "list tools" result names exactly the five tools, once each; a name
\* is routed to a handler exactly if it is listed; and the required fields
\* are {query} for search_events and search_assets, {username} for
\* get_user_timeline and get_user_risk_score, none for get_notable_events.
C8_RegistryMatchesDispatch ==
  listed /= <<>> =>
    /\ Len(listed) = 5
    /\ ListedNames = {"search_events", "get_user_timeline", "get_notable_events",
                      "get_user_risk_score", "search_assets"}
    /\ \A n \in NameUniverse : (Route(n) /= "default") <=> (n \in ListedNames)
    /\ \A n \in NameUniverse :
         LET d == Dispatch(n, Args(EmptyObject), Headers(1, Str("t")), now)
         IN (n \in ListedNames) <=> ~d.throws
    /\ \A i \in 1..Len(listed) :
         listed[i].required =
           CASE listed[i].name \in {"search_events", "search_assets"} -> {"query"}
             [] listed[i].name \in {"get_user_timeline", "get_user_risk_score"} -> {"username"}
             [] OTHER -> {}
    /\ \A i \in 1..Len(listed) : listed[i].required \subseteq listed[i].properties

C8_Witness ==
  /\ Len(listed) = 5
  /\ listed[1].name = "search_events" /\ listed[1].required = {"query"}
  /\ listed[3].name = "get_notable_events" /\ listed[3].required = {}

\* C9: get_notable_events called with no arguments (none sent, or an empty
\* mapping), after a successful authentication, issues the notable-events
\* request with minSeverity = 2 and a window of 24 hours ending when the
\* request is built, and does not return an error.
C9_NotableDefaults ==
  \A c \in Calls :
    (pc[c] \in {"data", "done"} /\ AuthSucceeded(c) /\ req[c].name = "get_notable_events"
       /\ (~req[c].args.defined \/ DOMAIN req[c].args.props = {})) =>
      /\ dataReq[c].url = ApiBaseUrl \o "/notable-events/v1/events"
      /\ trace[c] = <<AuthUrl, ApiBaseUrl \o "/notable-events/v1/events">>
      /\ HasProp(dataReq[c].params, "minSeverity")
      /\ GetProp(dataReq[c].params, "minSeverity") = Num(2)
      /\ GetProp(dataReq[c].params, "endTime") = Str(ToISOString(dataReq[c].at))
      /\ GetProp(dataReq[c].params, "startTime") = Str(ToISOString(dataReq[c].at - 24))
      /\ (Done(c) /\ dataResp[c].ok) => ~StartsWith(Text(c), "Error:")

\* C10: the payload of a search_assets request has no assetType member when
\* the assetType argument is "all" or absent, carries the argument unchanged
\* otherwise, and always has limit = 50, whatever limit the caller passed.
C10_AssetPayload ==
  \A c \in Calls :
    (req[c].name = "search_assets" /\ dataReq[c] /= NoRequest) =>
      LET assetType == Arg(req[c].args, "assetType")
          body == dataReq[c].body
      IN /\ assetType \in {Undefined, Str("all")} => ~HasProp(body, "assetType")
         /\ assetType \notin {Undefined, Str("all")} =>
              HasProp(body, "assetType") /\ GetProp(body, "assetType") = assetType
         /\ HasProp(body, "limit") /\ GetProp(body, "limit") = Num(50)
         /\ Cardinality({i \in 1..Len(body) : body[i].k = "limit"}) = 1
         /\ GetProp(body, "query") = Arg(req[c].args, "query")

C10_Witness ==
  \E c \in Calls :
    /\ req[c].name = "search_assets" /\ pc[c] = "data"
    /\ Arg(req[c].args, "assetType") = Str("server")
    /\ Arg(req[c].args, "limit") = Num(10)
    /\ GetProp(dataReq[c].body, "assetType") = Str("server")

====
